---- MODULE Spec2Model ----
(***************************************************************************)
(* Model of eskf::Node (src/src/Node.cpp): the ROS node that feeds sensor  *)
(* messages to the ESKF estimator and publishes its pose at a fixed rate.  *)
(*                                                                         *)
(* Callbacks are delivered one at a time (single-threaded ros::spin), so   *)
(* each callback and each timer tick is one atomic action.                 *)
(*                                                                         *)
(* Time is ros::Time, a pair (sec, nsec).  The model scales the number of  *)
(* nsec units per second down to TicksPerSec; a duration in seconds        *)
(* (Duration::toSec) and a time in microseconds are both counted in these  *)
(* ticks.  Message payloads (rates, accelerations, poses, flow integrals)  *)
(* are passed through to the estimator untouched and are left out.         *)
(* The wall-clock stamp of the output pose is left out as well.            *)
(***************************************************************************)
EXTENDS Integers, Sequences, FiniteSets, TLC

(* ---- bounds ---- *)
MaxEvents == 3        \* callbacks + timer ticks in one run
MaxTick == 4          \* largest message timestamp, in ticks
TicksPerSec == 2      \* nsec units per second (scaled down from 10^9)
MaxLandedState == 4   \* largest landed_state value delivered
MaxThreads == 2       \* largest number of spinner threads the host is tried with
MaxHostEvents == 2    \* callbacks + timer ticks in one run of the threaded host

(* ---- program constants ---- *)
MASK_EV_POS == 1
MASK_EV_YAW == 2
MASK_EV_HGT == 4
MASK_GPS_POS == 8
MASK_GPS_VEL == 16
MASK_GPS_HGT == 32
MASK_OPTICAL_FLOW == 64
LANDED_STATE_IN_AIR == 2
CovarianceSize == 36

(* fusion_mask values the parameter server is tried with *)
Masks == {0, MASK_EV_POS, MASK_EV_YAW, MASK_EV_HGT, MASK_GPS_POS, MASK_GPS_VEL,
          MASK_GPS_HGT, MASK_OPTICAL_FLOW, 127}

(* ---- bitwise and on naturals (C++ operator & on non-negative ints) ---- *)
RECURSIVE BitAnd(_, _)
BitAnd(a, b) ==
  IF a = 0 \/ b = 0 THEN 0
  ELSE (a % 2) * (b % 2) + 2 * BitAnd(a \div 2, b \div 2)

(* ---- ros::Time / ros::Duration ---- *)
TimeOf(k) == [sec |-> k \div TicksPerSec, nsec |-> k % TicksPerSec]
ZeroTime == [sec |-> 0, nsec |-> 0]
Stamps == {TimeOf(k) : k \in 0..MaxTick}

\* Time - Time: field-wise difference, normalised so that 0 <= nsec < 1 s
TimeMinus(a, b) ==
  LET s == a.sec - b.sec
      n == a.nsec - b.nsec
  IN IF n < 0 THEN [sec |-> s - 1, nsec |-> n + TicksPerSec]
              ELSE [sec |-> s, nsec |-> n]

\* Duration::toSec / Time::toSec, counted in ticks
ToSec(d) == d.sec * TicksPerSec + d.nsec

\* static_cast<uint64_t>(stamp.toSec() * 1e6f), counted in ticks
TimeUs(stamp) == ToSec(stamp)

VARIABLES
  param_fusion_mask,          \* "~fusion_mask" on the parameter server
  subs,                       \* topics the node is subscribed to
  eskf_fusion_mask,           \* mask held by eskf_ (setFusionMask)
  setFusionMaskCalls,         \* number of setFusionMask calls made
  init_,
  prevStampImu_,
  prevStampVisionPose_,
  prevStampGpsPose_,
  prevStampOpticalFlowPose_,
  trace_id_,                  \* static counter of publishState
  calls,                      \* estimator calls made by the callbacks, in order
  published,                  \* poses handed to pubPose_, in order
  events,                     \* messages and timer ticks delivered, in order
  ncalls,                     \* ncalls[i]: estimator calls made while handling events[i]
  spinner_threads,            \* threads the host spins the callback queue with
  running,                    \* callbacks begun and not yet returned
  finished                    \* indices of events whose callback has returned, in order

vars == <<param_fusion_mask, subs, eskf_fusion_mask, setFusionMaskCalls, init_,
          prevStampImu_, prevStampVisionPose_, prevStampGpsPose_,
          prevStampOpticalFlowPose_, trace_id_, calls, published, events, ncalls,
          spinner_threads, running, finished>>

stamps == <<prevStampImu_, prevStampVisionPose_, prevStampGpsPose_,
            prevStampOpticalFlowPose_>>
wiring == <<param_fusion_mask, subs, eskf_fusion_mask, setFusionMaskCalls>>
host == <<spinner_threads, running, finished>>

(* ---- constructor ---- *)
WantsVision(fusion_mask) ==
  \/ BitAnd(fusion_mask, MASK_EV_POS) # 0
  \/ BitAnd(fusion_mask, MASK_EV_YAW) # 0
  \/ BitAnd(fusion_mask, MASK_EV_HGT) # 0

WantsGpsFromVisionBits(fusion_mask) ==
  \/ BitAnd(fusion_mask, MASK_EV_POS) # 0
  \/ BitAnd(fusion_mask, MASK_EV_YAW) # 0
  \/ BitAnd(fusion_mask, MASK_EV_HGT) # 0

WantsGps(fusion_mask) ==
  \/ BitAnd(fusion_mask, MASK_GPS_POS) # 0
  \/ BitAnd(fusion_mask, MASK_GPS_VEL) # 0
  \/ BitAnd(fusion_mask, MASK_GPS_HGT) # 0

WantsOpticalFlow(fusion_mask) ==
  BitAnd(fusion_mask, MASK_OPTICAL_FLOW) # 0

Subscriptions(fusion_mask) ==
  {"imu", "extended_state"}
    \cup (IF WantsVision(fusion_mask) THEN {"vision"} ELSE {})
    \cup (IF WantsGps(fusion_mask) THEN {"gps"} ELSE {})
    \cup (IF WantsOpticalFlow(fusion_mask) THEN {"optical_flow"} ELSE {})

MaskForEstimatorDefault(fusion_mask) == MASK_EV_POS

\* the value passed to eskf_.setFusionMask
MaskForEstimator(fusion_mask) == fusion_mask

Constructed ==
  /\ param_fusion_mask \in Masks
  /\ subs = Subscriptions(param_fusion_mask)
  /\ eskf_fusion_mask = MaskForEstimator(param_fusion_mask)
  /\ setFusionMaskCalls = 1
  /\ init_ = FALSE
  /\ prevStampImu_ = ZeroTime
  /\ prevStampVisionPose_ = ZeroTime
  /\ prevStampGpsPose_ = ZeroTime
  /\ prevStampOpticalFlowPose_ = ZeroTime
  /\ trace_id_ = 0
  /\ calls = << >>
  /\ published = << >>
  /\ events = << >>
  /\ ncalls = << >>
  /\ running = << >>
  /\ finished = << >>

\* callbacks delivered one at a time (ros::spin)
Init ==
  /\ Constructed
  /\ spinner_threads = 1

(* ---- helpers shared by the callbacks ---- *)
CanStep == Len(events) < MaxEvents

HasPrevAlways(prevStamp) == TRUE
HasPrevNotZero(prevStamp) == prevStamp.sec # 0 \/ prevStamp.nsec # 0

\* if (prevStamp.sec != 0)
HasPrev(prevStamp) == prevStamp.sec # 0

DeltaSwapped(stamp, prevStamp) == ToSec(TimeMinus(prevStamp, stamp))

\* (msg->header.stamp - prevStamp).toSec()
Delta(stamp, prevStamp) == ToSec(TimeMinus(stamp, prevStamp))

Ingest(kind, stamp, prevStamp) ==
  [kind |-> kind, time_us |-> TimeUs(stamp), delta |-> Delta(stamp, prevStamp)]

\* estimator calls made by a timed callback
Forward(kind, stamp, prevStamp) ==
  IF HasPrev(prevStamp) THEN <<Ingest(kind, stamp, prevStamp)>> ELSE << >>

RecordNewestFirst(ev, made) ==
  /\ events' = Append(events, ev)
  /\ calls' = made \o calls
  /\ ncalls' = Append(ncalls, Len(made))
  /\ UNCHANGED host

Record(ev, made) ==
  /\ events' = Append(events, ev)
  /\ calls' = calls \o made
  /\ ncalls' = Append(ncalls, Len(made))
  /\ UNCHANGED host

(* ---- callbacks ---- *)
InputCallback(stamp) ==
  /\ CanStep
  /\ "imu" \in subs
  /\ init_' = (init_ \/ HasPrev(prevStampImu_))
  /\ Record([chan |-> "imu", stamp |-> stamp], Forward("run", stamp, prevStampImu_))
  /\ prevStampImu_' = stamp
  /\ UNCHANGED <<wiring, prevStampVisionPose_, prevStampGpsPose_,
                 prevStampOpticalFlowPose_, trace_id_, published>>

VisionCallback(stamp) ==
  /\ CanStep
  /\ "vision" \in subs
  /\ Record([chan |-> "vision", stamp |-> stamp],
            Forward("updateVision", stamp, prevStampVisionPose_))
  /\ prevStampVisionPose_' = stamp
  /\ UNCHANGED <<wiring, init_, prevStampImu_, prevStampGpsPose_,
                 prevStampOpticalFlowPose_, trace_id_, published>>

GpsCallbackStampOnlyWhenForwarded(stamp) ==
  /\ CanStep
  /\ "gps" \in subs
  /\ Record([chan |-> "gps", stamp |-> stamp],
            Forward("updateGps", stamp, prevStampGpsPose_))
  /\ prevStampGpsPose_' = (IF HasPrev(prevStampGpsPose_) THEN stamp ELSE prevStampGpsPose_)
  /\ UNCHANGED <<wiring, init_, prevStampImu_, prevStampVisionPose_,
                 prevStampOpticalFlowPose_, trace_id_, published>>

GpsCallback(stamp) ==
  /\ CanStep
  /\ "gps" \in subs
  /\ Record([chan |-> "gps", stamp |-> stamp],
            Forward("updateGps", stamp, prevStampGpsPose_))
  /\ prevStampGpsPose_' = stamp
  /\ UNCHANGED <<wiring, init_, prevStampImu_, prevStampVisionPose_,
                 prevStampOpticalFlowPose_, trace_id_, published>>

OpticalFlowCallbackStoresGpsStamp(stamp) ==
  /\ CanStep
  /\ "optical_flow" \in subs
  /\ Record([chan |-> "optical_flow", stamp |-> stamp],
            Forward("updateOpticalFlow", stamp, prevStampOpticalFlowPose_))
  /\ prevStampGpsPose_' = stamp
  /\ UNCHANGED <<wiring, init_, prevStampImu_, prevStampVisionPose_,
                 prevStampOpticalFlowPose_, trace_id_, published>>

OpticalFlowCallback(stamp) ==
  /\ CanStep
  /\ "optical_flow" \in subs
  /\ Record([chan |-> "optical_flow", stamp |-> stamp],
            Forward("updateOpticalFlow", stamp, prevStampOpticalFlowPose_))
  /\ prevStampOpticalFlowPose_' = stamp
  /\ UNCHANGED <<wiring, init_, prevStampImu_, prevStampVisionPose_,
                 prevStampGpsPose_, trace_id_, published>>

LandedCallsOnlyInAir(landed_state) ==
  IF BitAnd(landed_state, LANDED_STATE_IN_AIR) # 0
  THEN <<[kind |-> "updateLandedState",
          arg |-> BitAnd(landed_state, LANDED_STATE_IN_AIR)]>>
  ELSE << >>

\* estimator calls made by extendedStateCallback
LandedCalls(landed_state) ==
  <<[kind |-> "updateLandedState",
     arg |-> BitAnd(landed_state, LANDED_STATE_IN_AIR)]>>

ExtendedStateCallback(landed_state) ==
  /\ CanStep
  /\ "extended_state" \in subs
  /\ Record([chan |-> "extended_state", landed_state |-> landed_state],
            LandedCalls(landed_state))
  /\ UNCHANGED <<wiring, init_, stamps, trace_id_, published>>

(* ---- publisher ---- *)
\* the estimator's state is the outcome of the calls it has received
GetQuat == [quat_after |-> calls]
GetXYZ == [xyz_after |-> calls]

CovarianceLastLeft == [i \in 0..(CovarianceSize - 1) |-> IF i < CovarianceSize - 1 THEN 0 ELSE 1]

\* for (i < 36) pose.pose.covariance[i] = 0
Covariance == [i \in 0..(CovarianceSize - 1) |-> 0]

\* header.seq = trace_id_++ (size_t narrowed to uint32: the value is kept
\* below 2^32, which no run of MaxEvents ticks reaches)
HeaderSeq(trace_id) == trace_id
NextTraceIdStuck(trace_id) == trace_id
NextTraceId(trace_id) == trace_id + 1

PublishIfInit(out, pose) == IF init_ THEN Append(out, pose) ELSE out

\* pubPose_.publish(pose)
Publish(out, pose) == Append(out, pose)

PublishState ==
  /\ CanStep
  /\ LET pose == [seq |-> HeaderSeq(trace_id_),
                  frame_id |-> "/pose",
                  position |-> GetXYZ,
                  orientation |-> GetQuat,
                  covariance |-> Covariance]
     IN published' = Publish(published, pose)
  /\ trace_id_' = NextTraceId(trace_id_)
  /\ Record([chan |-> "timer"], << >>)
  /\ UNCHANGED <<wiring, init_, stamps>>

Next ==
  \/ \E stamp \in Stamps : InputCallback(stamp)
  \/ \E stamp \in Stamps : VisionCallback(stamp)
  \/ \E stamp \in Stamps : GpsCallback(stamp)
  \/ \E stamp \in Stamps : OpticalFlowCallback(stamp)
  \/ \E landed_state \in 0..MaxLandedState : ExtendedStateCallback(landed_state)
  \/ PublishState

Spec == Init /\ [][Next]_vars

(* ======================================================================= *)
(* The same callbacks under a host that may spin the callback queue with   *)
(* several threads.  A callback is split at the points where another       *)
(* thread can run in between: a timed callback tests the stored stamp and  *)
(* calls the estimator (first step), then stores the new stamp (second     *)
(* step); publishState reads the orientation (first step), then reads the  *)
(* position and publishes (second step).                                   *)
(* ======================================================================= *)
InitHost ==
  /\ Constructed
  /\ spinner_threads \in 1..MaxThreads

\* a spinner thread is free to take the next callback
ThreadFree == Len(running) < spinner_threads

SubscriptionIdleAlways(ch) == TRUE

\* nh_.subscribe(topic, queue, &Node::cb, this) and nh_.createTimer(...):
\* default options, so a subscription's (timer's) callback is not begun while
\* an earlier one of the same subscription (timer) has not returned
SubscriptionIdle(ch) == \A k \in 1..Len(running) : running[k].chan # ch

CanBegin(ch) ==
  /\ Len(events) < MaxHostEvents
  /\ ThreadFree
  /\ SubscriptionIdle(ch)

Without(seq, k) == SubSeq(seq, 1, k - 1) \o SubSeq(seq, k + 1, Len(seq))

\* prevStamp<channel>_ = msg->header.stamp
StoreStamp(ch, stamp) ==
  /\ prevStampImu_' = (IF ch = "imu" THEN stamp ELSE prevStampImu_)
  /\ prevStampVisionPose_' = (IF ch = "vision" THEN stamp ELSE prevStampVisionPose_)
  /\ prevStampGpsPose_' = (IF ch = "gps" THEN stamp ELSE prevStampGpsPose_)
  /\ prevStampOpticalFlowPose_' =
       (IF ch = "optical_flow" THEN stamp ELSE prevStampOpticalFlowPose_)

ChanStamp(ch) ==
  CASE ch = "imu" -> prevStampImu_
    [] ch = "vision" -> prevStampVisionPose_
    [] ch = "gps" -> prevStampGpsPose_
    [] ch = "optical_flow" -> prevStampOpticalFlowPose_

ChanCall(ch) ==
  CASE ch = "imu" -> "run"
    [] ch = "vision" -> "updateVision"
    [] ch = "gps" -> "updateGps"
    [] ch = "optical_flow" -> "updateOpticalFlow"

\* first step of inputCallback / visionCallback / gpsCallback /
\* opticalFlowCallback: the test of the stored stamp and the estimator call
TimedBegin(ch, stamp) ==
  /\ ch \in subs
  /\ CanBegin(ch)
  /\ LET made == Forward(ChanCall(ch), stamp, ChanStamp(ch))
     IN /\ calls' = calls \o made
        /\ ncalls' = Append(ncalls, Len(made))
        /\ init_' = (init_ \/ (ch = "imu" /\ HasPrev(ChanStamp(ch))))
  /\ events' = Append(events, [chan |-> ch, stamp |-> stamp])
  /\ running' = Append(running, [chan |-> ch, ev |-> Len(events) + 1,
                                 stamp |-> stamp, quat |-> << >>])
  /\ UNCHANGED <<wiring, stamps, trace_id_, published, spinner_threads, finished>>

\* second step: the stamp is stored and the callback returns
TimedEnd(k) ==
  /\ k \in 1..Len(running)
  /\ running[k].chan \in {"imu", "vision", "gps", "optical_flow"}
  /\ StoreStamp(running[k].chan, running[k].stamp)
  /\ running' = Without(running, k)
  /\ finished' = Append(finished, running[k].ev)
  /\ UNCHANGED <<wiring, init_, trace_id_, calls, published, events, ncalls,
                 spinner_threads>>

\* extendedStateCallback is a single estimator call
ExtendedStateRun(landed_state) ==
  /\ "extended_state" \in subs
  /\ CanBegin("extended_state")
  /\ calls' = calls \o LandedCalls(landed_state)
  /\ ncalls' = Append(ncalls, Len(LandedCalls(landed_state)))
  /\ events' = Append(events, [chan |-> "extended_state", landed_state |-> landed_state])
  /\ finished' = Append(finished, Len(events) + 1)
  /\ UNCHANGED <<wiring, init_, stamps, trace_id_, published, spinner_threads, running>>

\* first step of publishState: const quat e2g = eskf_.getQuat()
PublishBegin ==
  /\ CanBegin("timer")
  /\ events' = Append(events, [chan |-> "timer"])
  /\ ncalls' = Append(ncalls, 0)
  /\ running' = Append(running, [chan |-> "timer", ev |-> Len(events) + 1,
                                 stamp |-> ZeroTime, quat |-> <<GetQuat>>])
  /\ UNCHANGED <<wiring, init_, stamps, trace_id_, calls, published,
                 spinner_threads, finished>>

\* second step: eskf_.getXYZ(), the header, the pose and the publish
PublishEnd(k) ==
  /\ k \in 1..Len(running)
  /\ running[k].chan = "timer"
  /\ LET pose == [seq |-> HeaderSeq(trace_id_),
                  frame_id |-> "/pose",
                  position |-> GetXYZ,
                  orientation |-> running[k].quat[1],
                  covariance |-> Covariance]
     IN published' = Publish(published, pose)
  /\ trace_id_' = NextTraceId(trace_id_)
  /\ running' = Without(running, k)
  /\ finished' = Append(finished, running[k].ev)
  /\ UNCHANGED <<wiring, init_, stamps, calls, events, ncalls, spinner_threads>>

NextHost ==
  \/ \E ch \in {"imu", "vision", "gps", "optical_flow"} :
       \E stamp \in Stamps : TimedBegin(ch, stamp)
  \/ \E k \in 1..MaxThreads : TimedEnd(k)
  \/ \E landed_state \in 0..MaxLandedState : ExtendedStateRun(landed_state)
  \/ PublishBegin
  \/ \E k \in 1..MaxThreads : PublishEnd(k)

SpecHost == InitHost /\ [][NextHost]_vars

TypeOK ==
  /\ param_fusion_mask \in Masks
  /\ subs \subseteq {"imu", "extended_state", "vision", "gps", "optical_flow"}
  /\ init_ \in BOOLEAN
  /\ prevStampImu_ \in Stamps
  /\ trace_id_ \in 0..MaxEvents
  /\ Len(events) <= MaxEvents
  /\ Len(ncalls) = Len(events)

(* ======================================================================= *)
(* Properties                                                              *)
(* ======================================================================= *)
TimedChans == {"imu", "vision", "gps", "optical_flow"}

PrevStampOf(ch) ==
  CASE ch = "imu" -> prevStampImu_
    [] ch = "vision" -> prevStampVisionPose_
    [] ch = "gps" -> prevStampGpsPose_
    [] ch = "optical_flow" -> prevStampOpticalFlowPose_

KindOf(ch) ==
  CASE ch = "imu" -> "run"
    [] ch = "vision" -> "updateVision"
    [] ch = "gps" -> "updateGps"
    [] ch = "optical_flow" -> "updateOpticalFlow"
    [] ch = "extended_state" -> "updateLandedState"

EventsOn(ch) == {i \in 1..Len(events) : events[i].chan = ch}
TimedEvents == {i \in 1..Len(events) : events[i].chan \in TimedChans}
EarlierOn(i) == {j \in 1..(i - 1) : events[j].chan = events[i].chan}
IsFirst(i) == EarlierOn(i) = {}
Largest(S) == CHOOSE x \in S : \A y \in S : y <= x
Smallest(S) == CHOOSE x \in S : \A y \in S : x <= y
PrevOn(i) == Largest(EarlierOn(i))

RECURSIVE CallsThrough(_)
CallsThrough(i) == IF i = 0 THEN 0 ELSE ncalls[i] + CallsThrough(i - 1)
\* the estimator call made while handling events[i] (when ncalls[i] = 1)
CallOf(i) == calls[CallsThrough(i - 1) + 1]

\* a timestamp as a number of ticks since time zero
Ticks(t) == t.sec * TicksPerSec + t.nsec

(* C1: on every timed channel the first sample delivered makes no estimator
   call, and while it is the only sample of its channel the channel's stored
   previous stamp is that sample's stamp. *)
C1_FirstSampleSuppressed ==
  \A ch \in TimedChans :
    EventsOn(ch) # {} =>
      LET f == Smallest(EventsOn(ch))
      IN /\ ncalls[f] = 0
         /\ \A c \in 1..Len(calls) : c <= CallsThrough(f) => calls[c].kind # KindOf(ch)
         /\ (Cardinality(EventsOn(ch)) = 1 => PrevStampOf(ch) = events[f].stamp)

C1_Witness ==
  /\ Len(events) = 1
  /\ events[1].chan = "vision"
  /\ events[1].stamp.sec = 1
  /\ calls = << >>
  /\ prevStampVisionPose_ = events[1].stamp

(* C2: every sample after the first one of its timed channel makes exactly
   one estimator call, and only first samples make none (stated for channels
   whose samples all carry a non-zero timestamp, as in the scenario 0.1 s
   then 0.15 s). *)
C2_AllButFirstForwarded ==
  \A i \in TimedEvents :
    (\A j \in EarlierOn(i) : events[j].stamp # ZeroTime) =>
      ncalls[i] = (IF IsFirst(i) THEN 0 ELSE 1)

(* C3: when a sample with stamp t2 follows a sample with stamp t1 < t2 on the
   same timed channel and is forwarded, the forwarded dt is t2 - t1, whatever
   was delivered on other channels or earlier on this one. *)
C3_DeltaIsDifferenceToPrevious ==
  \A i \in TimedEvents :
    (~IsFirst(i) /\ ncalls[i] = 1
       /\ Ticks(events[PrevOn(i)].stamp) < Ticks(events[i].stamp)) =>
      /\ CallOf(i).kind = KindOf(events[i].chan)
      /\ CallOf(i).delta = Ticks(events[i].stamp) - Ticks(events[PrevOn(i)].stamp)

C3_Witness ==
  /\ Len(events) = 3
  /\ events[1].chan = "imu" /\ events[1].stamp = TimeOf(TicksPerSec)
  /\ events[2].chan = "gps" /\ events[2].stamp = ZeroTime
  /\ events[3].chan = "imu" /\ events[3].stamp = TimeOf(TicksPerSec + 1)
  /\ Len(calls) = 1
  /\ calls[1].kind = "run" /\ calls[1].delta = 1

(* C4: the subscribed channels are a function of the mask alone: inertial and
   ground contact always, vision iff one of the three vision bits is set, GPS
   iff one of the three GPS bits is set, optical flow iff its bit is set; only
   subscribed channels deliver, and only their estimator calls are made. *)
BitSet(mask, bit) == (mask \div bit) % 2 = 1
EnabledBy(mask) ==
  {"imu", "extended_state"}
    \cup {ch \in {"vision"} :
            \E b \in {MASK_EV_POS, MASK_EV_YAW, MASK_EV_HGT} : BitSet(mask, b)}
    \cup {ch \in {"gps"} :
            \E b \in {MASK_GPS_POS, MASK_GPS_VEL, MASK_GPS_HGT} : BitSet(mask, b)}
    \cup {ch \in {"optical_flow"} : BitSet(mask, MASK_OPTICAL_FLOW)}

C4_ChannelsFollowMask ==
  /\ subs = EnabledBy(param_fusion_mask)
  /\ \A i \in 1..Len(events) :
       events[i].chan # "timer" => events[i].chan \in EnabledBy(param_fusion_mask)
  /\ \A c \in 1..Len(calls) :
       \E ch \in EnabledBy(param_fusion_mask) : calls[c].kind = KindOf(ch)
  /\ (param_fusion_mask = 0 =>
        \A c \in 1..Len(calls) : calls[c].kind \in {"run", "updateLandedState"})

C4_Witness ==
  /\ param_fusion_mask = MASK_EV_YAW
  /\ subs = {"imu", "extended_state", "vision"}
  /\ Cardinality(EventsOn("vision")) = 2
  /\ Len(calls) = 1
  /\ calls[1].kind = "updateVision"

(* C5: the mask is fixed at construction: the estimator received it in one
   setFusionMask call, it is the value the subscriptions were derived from, a
   channel is subscribed iff the estimator's mask enables it, and no callback
   or publish tick changes the mask or the subscriptions. *)
C5_MaskAgreesAndIsFrozen ==
  /\ [](/\ setFusionMaskCalls = 1
        /\ eskf_fusion_mask = param_fusion_mask
        /\ subs = EnabledBy(eskf_fusion_mask))
  /\ [][eskf_fusion_mask' = eskf_fusion_mask /\ subs' = subs
          /\ setFusionMaskCalls' = setFusionMaskCalls]_vars

C5_Witness ==
  /\ eskf_fusion_mask = MASK_GPS_VEL
  /\ subs = {"imu", "extended_state", "gps"}
  /\ EventsOn("gps") # {}
  /\ EventsOn("timer") # {}
  /\ EventsOn("extended_state") # {}

(* C6: after N timer ticks exactly N poses have been published, the k-th one
   (counting from 0) carries sequence number k, whatever callbacks ran in
   between. *)
C6_OnePosePerTickSeqFromZero ==
  /\ Len(published) = Cardinality(EventsOn("timer"))
  /\ \A k \in 1..Len(published) : published[k].seq = k - 1
  /\ \A k \in 1..Len(published) : \A m \in 1..Len(published) :
       k < m => published[k].seq < published[m].seq

C6_Witness ==
  /\ Len(events) = 3
  /\ events[1].chan = "timer"
  /\ events[2].chan = "extended_state"
  /\ events[3].chan = "timer"
  /\ Len(published) = 2
  /\ published[1].seq = 0 /\ published[2].seq = 1

(* C7: every published pose has 36 covariance entries, all zero. *)
C7_CovarianceAllZero ==
  \A k \in 1..Len(published) :
    /\ DOMAIN published[k].covariance = 0..35
    /\ \A i \in 0..35 : published[k].covariance[i] = 0

C7_Witness ==
  /\ Len(published) = 1
  /\ Len(calls) = 1
  /\ \E c \in 1..Len(calls) : calls[c].kind = "run"
  /\ published[1].orientation.quat_after = calls

(* C8: every ground-contact delivery, the first included, makes exactly one
   updateLandedState call, and it leaves every channel's previous stamp as it
   was. *)
LastEventOn(ch) ==
  /\ Len(events') = Len(events) + 1
  /\ events'[Len(events')].chan = ch

C8_GroundContactAlwaysForwarded ==
  /\ [](/\ \A i \in EventsOn("extended_state") :
             ncalls[i] = 1 /\ CallOf(i).kind = "updateLandedState"
        /\ Cardinality(EventsOn("extended_state"))
             = Cardinality({c \in 1..Len(calls) : calls[c].kind = "updateLandedState"}))
  /\ [][LastEventOn("extended_state") =>
          /\ Len(calls') = Len(calls) + 1
          /\ UNCHANGED stamps]_vars

C8_Witness ==
  /\ Len(events) = 2
  /\ events[1].chan = "extended_state"
  /\ events[2].chan = "extended_state"
  /\ Len(calls) = 2
  /\ calls[1].kind = "updateLandedState"
  /\ calls[2].kind = "updateLandedState"
  /\ stamps = <<ZeroTime, ZeroTime, ZeroTime, ZeroTime>>

(* C9: every timer tick publishes a pose whose orientation and position are
   the estimator's at that moment, ready or not: a tick before any estimator
   call publishes the estimator's initial state. *)
TickOfPose(k) ==
  CHOOSE i \in EventsOn("timer") :
    Cardinality({j \in EventsOn("timer") : j <= i}) = k

C9_PublishNotGated ==
  /\ \A i \in EventsOn("timer") :
       Cardinality({j \in EventsOn("timer") : j <= i}) <= Len(published)
  /\ \A k \in 1..Len(published) :
       LET seen == SubSeq(calls, 1, CallsThrough(TickOfPose(k)))
       IN /\ published[k].orientation = [quat_after |-> seen]
          /\ published[k].position = [xyz_after |-> seen]

C9_Witness ==
  /\ Len(events) = 2
  /\ events[1].chan = "imu"
  /\ events[2].chan = "timer"
  /\ ~init_
  /\ calls = << >>
  /\ Len(published) = 1
  /\ published[1].orientation = [quat_after |-> << >>]
  /\ published[1].position = [xyz_after |-> << >>]

(* C10: a sample that is not the first of its timed channel and whose stamp
   is not later than the previous sample's is forwarded all the same, with
   dt = t - previous <= 0, and the channel's previous stamp becomes t (stated
   for channels whose earlier samples all carry a non-zero timestamp). *)
C10_NonMonotonicForwarded ==
  \A i \in TimedEvents :
    (/\ ~IsFirst(i)
     /\ \A j \in EarlierOn(i) : events[j].stamp # ZeroTime
     /\ Ticks(events[i].stamp) <= Ticks(events[PrevOn(i)].stamp)) =>
      /\ ncalls[i] = 1
      /\ CallOf(i).delta = Ticks(events[i].stamp) - Ticks(events[PrevOn(i)].stamp)
      /\ CallOf(i).delta <= 0
      /\ (i = Largest(EventsOn(events[i].chan)) =>
            PrevStampOf(events[i].chan) = events[i].stamp)

(* C12: the estimator calls are the deliveries in arrival order with the
   suppressed samples removed: the c-th call is the one of the c-th delivery
   that made a call, no delivery makes more than one, and calls are only ever
   added at the end. *)
EventOfCall(c) ==
  CHOOSE i \in 1..Len(events) : ncalls[i] = 1 /\ CallsThrough(i) = c

InAirBit(landed_state) == ((landed_state \div 2) % 2) * 2

C12_CallsInArrivalOrder ==
  /\ [](/\ \A i \in 1..Len(events) : ncalls[i] \in {0, 1}
        /\ Len(calls) = Cardinality({i \in 1..Len(events) : ncalls[i] = 1})
        /\ \A c \in 1..Len(calls) :
             LET ev == events[EventOfCall(c)]
             IN /\ calls[c].kind = KindOf(ev.chan)
                /\ ev.chan \in TimedChans => calls[c].time_us = Ticks(ev.stamp)
                /\ ev.chan = "extended_state" => calls[c].arg = InAirBit(ev.landed_state))
  /\ [][/\ Len(calls') \in {Len(calls), Len(calls) + 1}
        /\ SubSeq(calls', 1, Len(calls)) = calls]_vars

C12_Witness ==
  /\ Len(events) = 3
  /\ events[1].chan = "imu" /\ events[1].stamp = TimeOf(TicksPerSec)
  /\ events[2].chan = "extended_state" /\ events[2].landed_state = 2
  /\ events[3].chan = "imu" /\ events[3].stamp = TimeOf(TicksPerSec + 1)
  /\ Len(calls) = 2
  /\ calls[1].kind = "updateLandedState"
  /\ calls[2].kind = "run"

(* C13: a timed channel's stored previous stamp is the stamp of the latest
   sample delivered on it, forwarded or not; so while the samples of a
   channel arrive with non-decreasing stamps the stored stamp never goes
   back. *)
NonDecreasingOn(ch, evs) ==
  \A i \in 1..Len(evs) : \A j \in 1..Len(evs) :
    (i < j /\ evs[i].chan = ch /\ evs[j].chan = ch) =>
      Ticks(evs[i].stamp) <= Ticks(evs[j].stamp)

C13_LastStampIsLatestSample ==
  /\ [](\A ch \in TimedChans :
          PrevStampOf(ch) = IF EventsOn(ch) = {} THEN ZeroTime
                            ELSE events[Largest(EventsOn(ch))].stamp)
  /\ [][\A ch \in TimedChans :
          NonDecreasingOn(ch, events') =>
            Ticks(PrevStampOf(ch)) <= Ticks(PrevStampOf(ch)')]_vars

C13_Witness ==
  /\ Len(events) = 3
  /\ \A i \in 1..3 : events[i].chan = "gps"
  /\ events[1].stamp = TimeOf(1)
  /\ events[2].stamp = TimeOf(TicksPerSec)
  /\ events[3].stamp = TimeOf(TicksPerSec + 1)
  /\ ncalls = <<0, 0, 1>>
  /\ prevStampGpsPose_ = TimeOf(TicksPerSec + 1)

(* C14: a callback of a timed channel leaves the other channels' stamps, the
   mask and subscriptions, the sequence counter and the published poses as
   they were and makes at most one estimator call; the ground-contact
   callback moreover leaves every stamp; a publish tick advances the sequence
   counter and publishes, and leaves every stamp, the mask and the
   estimator's calls as they were. *)
OthersUnchanged(ch) ==
  \A other \in TimedChans \ {ch} : PrevStampOf(other)' = PrevStampOf(other)

C14_FrameOfEachCallback ==
  [][/\ \A ch \in TimedChans :
          LastEventOn(ch) =>
            /\ OthersUnchanged(ch)
            /\ UNCHANGED <<wiring, trace_id_, published>>
            /\ Len(calls') <= Len(calls) + 1
     /\ LastEventOn("extended_state") =>
          /\ UNCHANGED <<wiring, stamps, trace_id_, published>>
          /\ Len(calls') <= Len(calls) + 1
     /\ LastEventOn("timer") =>
          /\ UNCHANGED <<wiring, stamps, calls, init_>>
          /\ trace_id_' = trace_id_ + 1]_vars

C14_Witness ==
  /\ Len(events) = 3
  /\ events[1].chan = "gps" /\ events[1].stamp = TimeOf(TicksPerSec)
  /\ events[2].chan = "optical_flow" /\ events[2].stamp = TimeOf(TicksPerSec + 1)
  /\ events[3].chan = "timer"
  /\ prevStampGpsPose_ = TimeOf(TicksPerSec)
  /\ prevStampOpticalFlowPose_ = TimeOf(TicksPerSec + 1)
  /\ trace_id_ = 1

(* C16: the in-air flag handed to the estimator by the ground-contact
   callback is true exactly when the message's landed state is IN_AIR. *)
InAirFlag(call) == call.arg # 0

C16_InAirIffLandedStateInAir ==
  \A i \in EventsOn("extended_state") :
    InAirFlag(CallOf(i)) <=> (events[i].landed_state = LANDED_STATE_IN_AIR)

(* C17: a sample of a timed channel is forwarded iff the whole-seconds field
   of the stamp stored before it (the previous sample's) is non-zero, wherever
   in the stream it comes: after a sample stamped below one second the next
   one is suppressed, and no call is made against such a previous stamp. *)
C17_ForwardedIffPrevSecNonZero ==
  \A i \in TimedEvents :
    ncalls[i] = (IF ~IsFirst(i) /\ events[PrevOn(i)].stamp.sec # 0 THEN 1 ELSE 0)

C17_Witness ==
  /\ Len(events) = 3
  /\ \A i \in 1..3 : events[i].chan = "imu"
  /\ events[1].stamp = TimeOf(TicksPerSec)
  /\ events[2].stamp = TimeOf(1)
  /\ events[3].stamp = TimeOf(TicksPerSec + 1)
  /\ ncalls = <<0, 1, 0>>
  /\ Len(calls) = 1
  /\ calls[1].delta < 0

(* C15: under a host that may run callbacks on several threads, deliveries on
   one channel never overlap: a callback of a channel begins only when every
   earlier one of that channel has returned, so it is forwarded iff the stamp
   of the latest returned delivery has non-zero seconds, and its dt is taken
   against that stamp. *)
ReturnedOn(ch) == {k \in 1..Len(finished) : events[finished[k]].chan = ch}
LastReturnedStamp(ch) ==
  IF ReturnedOn(ch) = {} THEN ZeroTime
  ELSE events[finished[Largest(ReturnedOn(ch))]].stamp

SameEstimatorState(pose) == pose.orientation.quat_after = pose.position.xyz_after

C18_PoseFromOneState ==
  \A k \in 1..Len(published) : SameEstimatorState(published[k])
====
